---- MODULE Spec2Model ----
(***************************************************************************)
(* Backend of azure-appconfig-demo (Express): JWT login, the               *)
(* authenticateToken gate, and the configuration routes that resolve a     *)
(* Key Vault secret and read three App Configuration settings.             *)
(*                                                                         *)
(* A request is a record in the sequence reqs.  A handler runs from one    *)
(* await to the next as one action; the answer of an external call         *)
(* (bcrypt, Key Vault, App Configuration) resumes the handler.             *)
(* Time is counted in hours.                                               *)
(***************************************************************************)
EXTENDS Integers, Sequences, FiniteSets, TLC

VARIABLES
    now,            \* wall clock, hours since process start
    users,          \* the in-memory user fixture (line 34)
    JWT_SECRET,     \* the token-signing key (line 31)
    reqs,           \* the requests received so far, in arrival order
    secretFetches,  \* secretClient.getSecret calls made so far
    settingLookups, \* client.getConfigurationSetting calls made so far
    fe              \* the frontend in one browser: localStorage, React state,
                    \* the route shown and the axios calls in flight

vars == <<now, users, JWT_SECRET, reqs, secretFetches, settingLookups, fe>>

----------------------------------------------------------------------------
(* Bounds of the model *)

MaxReq == 2          \* requests per behaviour
MaxTime == 24        \* the clock stops here

(* Program constants *)

ExpiresInHours == 24     \* jwt.sign(..., { expiresIn: '24h' })
DemoUserId == 1

Null == "null"

----------------------------------------------------------------------------
(* bcrypt *)

DemoUsername == "demo@ltimindtree.com"
DocumentedPassword == "password123"

\* The digest stored in the fixture (line 38).
StoredDigest == "$2b$10$rOzWbkQ9p5Fy8.QqZ6m7CeHPFZGVN1wR8PjHgF5nC2QxGkY7mKfO2"

\* bcrypt of a password under the salt and cost of StoredDigest
\* ($2b$, cost 10, salt rOzWbkQ9p5Fy8.QqZ6m7Ce), as bcrypt computes it.
\* None of them is the stored digest: the digest in the fixture is not the
\* bcrypt digest of 'password123'.
bcryptHash(pw) ==
    CASE pw = "password123"    -> "$2b$10$rOzWbkQ9p5Fy8.QqZ6m7Ceg2LVtNfEEV.CtSqtCk2dKmkhKUmFZ6."
      [] pw = "wrong-password" -> "$2b$10$rOzWbkQ9p5Fy8.QqZ6m7CeSAIrN0ipMejL0FM0KrTffnWwoGuxBKi"
      [] pw = ""               -> "$2b$10$rOzWbkQ9p5Fy8.QqZ6m7CeidpSNNJSdw4IBIZ3lfx3j.pbFk7UzpC"
      [] OTHER                 -> "$2b$10$rOzWbkQ9p5Fy8.QqZ6m7Ce-other-digest"

\* A JSON value of the request body: its type and its text.
Str(s) == [type |-> "string", val |-> s]
Num(s) == [type |-> "number", val |-> s]

\* JavaScript truthiness of a JSON value, as !username / !password read it.
Truthy(v) ==
    CASE v.type = "string" -> v.val /= ""
      [] v.type = "number" -> v.val /= "0"
      [] OTHER -> FALSE

\* bcrypt.compare(data, hash): rejects ("throw") unless data is a string,
\* otherwise resolves to whether hash is the digest of data.
bcryptCompare(data, hash) ==
    IF data.type /= "string" THEN "throw"
    ELSE IF bcryptHash(data.val) = hash THEN "true" ELSE "false"

----------------------------------------------------------------------------
(* jsonwebtoken *)

Sig(payload, key) == [by |-> key, over |-> payload]

\* jwt.sign(claims, key, { expiresIn: '24h' }) at time t
jwtSign(claims, key, t) ==
    LET payload == [id |-> claims.id, username |-> claims.username,
                    name |-> claims.name, iat |-> t, exp |-> t + ExpiresInHours]
    IN  [kind |-> "jwt", payload |-> payload, sig |-> Sig(payload, key)]

\* jwt.verify(token, key) at time t: TRUE iff the callback gets no error.
jwtVerify(token, key, t) ==
    /\ token.kind = "jwt"
    /\ token.sig = Sig(token.payload, key)
    /\ t < token.payload.exp

Undefined == [kind |-> "undefined"]
EmptyString == [kind |-> "empty"]

\* The Authorization header: absent, or the list authHeader.split(' ') yields.
NoHeader == <<>>
Bearer(tok) == <<"Bearer", tok>>
BearerOnly == <<"Bearer">>

\* authHeader && authHeader.split(' ')[1]
TokenOf(header) == IF Len(header) >= 2 THEN header[2] ELSE Undefined

\* !token
Falsy(token) == token.kind \in {"undefined", "empty"}

----------------------------------------------------------------------------
(* The fixture and the stores *)

UsersFixture ==
    <<[id |-> DemoUserId, username |-> DemoUsername,
       password |-> StoredDigest, name |-> "Demo User"]>>

DefaultJwtSecret == "your-secret-key"

\* users.find(u => u.username === username): the index of the record, or 0
FindUser(us, username) ==
    IF username.type = "string"
       /\ \E k \in 1..Len(us) : us[k].username = username.val
    THEN CHOOSE k \in 1..Len(us) :
            /\ us[k].username = username.val
            /\ \A j \in 1..(k-1) : us[j].username /= username.val
    ELSE 0

PromoTextKey == "PromoBanner/Text"
PromoColorKey == "PromoBanner/Color"
NewCheckoutKey == "Feature/NewCheckout"
ConfigKeys == <<PromoTextKey, PromoColorKey, NewCheckoutKey>>

\* A key the store does not hold.
UnknownKey == "UnknownKey"

\* Values the operator of the store may have given Feature/NewCheckout.
FlagValues == {"true", "True", "TRUE", "1", ""}

\* The values the settings store may hold under key when a lookup reads it
\* (the store is external: its operator sets, changes and removes entries).
StoredValues(key) ==
    CASE key = PromoTextKey   -> {"Summer Sale - 50% Off!"}
      [] key = PromoColorKey  -> {"blue"}
      [] key = NewCheckoutKey -> FlagValues
      [] OTHER                -> {}

\* The setting getConfigurationSetting resolves to.
Entry(key, v) == [key |-> key, value |-> v, lastModified |-> "stamp"]

----------------------------------------------------------------------------
(* What clients can send *)

DemoClaims == [id |-> DemoUserId, username |-> DemoUsername, name |-> "Demo User"]

\* A token signed at time 0 by a holder of the signing key (the key falls
\* back to a literal of the source, line 31).
MintedToken == jwtSign(DemoClaims, DefaultJwtSecret, 0)
\* The same claims signed with another key.
ForgedToken == jwtSign(DemoClaims, "attacker-key", 0)

\* The tokens of the successful logins so far.
IssuedTokens ==
    {reqs[i].body.token : i \in {j \in 1..Len(reqs) :
        reqs[j].route = "login" /\ reqs[j].status = 200}}

ClientTokens == {MintedToken, ForgedToken}
                    \cup IssuedTokens

\* No header, "Bearer", "Bearer " and "Bearer <token>".
Headers == {NoHeader, BearerOnly, Bearer(EmptyString)}
                \cup {Bearer(t) : t \in ClientTokens}

Usernames == {Str(DemoUsername), Str("nobody@example.com")}
Passwords == {Str(DocumentedPassword), Str("wrong-password"), Str(""), Num("12345")}
RequestedKeys == {NewCheckoutKey, UnknownKey}

SecretErrors == {"SecretNotFound", "NetworkError"}

\* How a lookup of key can fail: the entries of the lab instructions are
\* taken to exist, any other may be absent.
SettingErrors(key) ==
    IF key \in {PromoTextKey, PromoColorKey} THEN {"NetworkError"}
    ELSE {"SettingNotFound", "NetworkError"}

TickSteps == {12}

----------------------------------------------------------------------------
(* Requests *)

NoBody == [none |-> TRUE]

\* A request as it arrives.
NewReq(route, header) ==
    [route |-> route, header |-> header,
     username |-> Str(""), password |-> Str(""), key |-> "",
     pc |-> "start", userIdx |-> 0, client |-> 0, step |-> 0,
     promoText |-> Null, promoColor |-> Null, newCheckoutEnabled |-> Null,
     caught |-> Null, secretCalls |-> 0, settingCalls |-> 0,
     status |-> 0, body |-> NoBody]

\* res.status(status).json(body)
Respond(r, status, body) ==
    [r EXCEPT !.pc = "done", !.status = status, !.body = body]

\* authenticateToken with the result of jwt.verify ignored.
authenticateTokenUnverified(header, t) ==
    LET token == TokenOf(header)
    IN  IF Falsy(token)
        THEN [status |-> 401, body |-> [error |-> "Access token required"]]
        ELSE [status |-> 0, user |-> IF token.kind = "jwt" THEN token.payload ELSE Null]

\* authenticateToken(req, res, next) at time t: the response it sends, or
\* status 0 and req.user when it calls next().
authenticateToken(header, t) ==
    LET token == TokenOf(header)
    IN  IF Falsy(token)
        THEN [status |-> 401, body |-> [error |-> "Access token required"]]
        ELSE IF ~jwtVerify(token, JWT_SECRET, t)
        THEN [status |-> 403, body |-> [error |-> "Invalid or expired token"]]
        ELSE [status |-> 0, user |-> token.payload]

\* client.getConfigurationSetting({ key }) up to its await.
getConfigurationSetting(r) ==
    [r EXCEPT !.pc = "awaitSetting", !.step = @ + 1, !.settingCalls = @ + 1]

\* getAppConfigClient keeping the first client it built in a module-level
\* variable and handing it to every later caller.
getAppConfigClientCached(r) ==
    IF \E j \in 1..Len(reqs) : reqs[j].client /= 0
    THEN getConfigurationSetting(
            [r EXCEPT !.client = CHOOSE j \in 1..Len(reqs) : reqs[j].client /= 0])
    ELSE [r EXCEPT !.pc = "awaitSecret", !.secretCalls = @ + 1]

\* getAppConfigClient() up to its await: the getSecret call is sent.
getAppConfigClient(r) ==
    [r EXCEPT !.pc = "awaitSecret", !.secretCalls = @ + 1]

\* The key of the lookup r is waiting for.
AwaitedKey(r) == IF r.route = "configKey" THEN r.key ELSE ConfigKeys[r.step]

\* The flag read leniently, as a case-insensitive or truthy parse would.
IsEnabledLenient(value) == value \in {"true", "True", "TRUE", "1"}

\* newCheckoutEnabled.value === "true"
IsEnabled(value) == value = "true"

\* The body of the 200 response of GET /api/config (lines 148-159).
ConfigBody(promoText, promoColor, newCheckoutEnabled) ==
    [success |-> TRUE,
     config |-> [promoBanner |-> [text |-> promoText, color |-> promoColor],
                 features |-> [newCheckout |-> IsEnabled(newCheckoutEnabled)]]]

\* A catch block that answers with what was fetched before the failure.
ConfigCatchPartial(r, message) ==
    Respond([r EXCEPT !.caught = message], 500,
            [success |-> FALSE, error |-> "Failed to load configuration",
             details |-> message,
             config |-> [promoBanner |-> [text |-> r.promoText, color |-> r.promoColor]]])

\* The catch block of GET /api/config (lines 160-167).
ConfigCatch(r, message) ==
    Respond([r EXCEPT !.caught = message], 500, [success |-> FALSE, error |-> "Failed to load configuration",
                     details |-> message])

\* The catch block of GET /api/config/:key (lines 184-191).
ConfigKeyCatch(r, message) ==
    Respond([r EXCEPT !.caught = message], 500, [success |-> FALSE,
                     error |-> "Failed to load configuration setting",
                     details |-> message])

\* The catch block of GET / (lines 248-250): res.send without a status.
LegacyCatch(r, message) ==
    Respond([r EXCEPT !.caught = message], 200, [html |-> "Error loading settings", message |-> message])

\* The page GET / renders (lines 205-247).
LegacyPage(promoText, promoColor, newCheckoutEnabled) ==
    [html |-> "page", banner |-> promoText, color |-> promoColor,
     checkout |-> IF IsEnabled(newCheckoutEnabled) THEN "Enabled" ELSE "Disabled"]

\* The catch block of the route of r.
Catch(r, message) ==
    CASE r.route = "config"    -> ConfigCatch(r, message)
      [] r.route = "configKey" -> ConfigKeyCatch(r, message)
      [] OTHER                 -> LegacyCatch(r, message)

----------------------------------------------------------------------------
(* The frontend (src/frontend/src/App.js) *)

\* localStorage.getItem(...) === null, and the React state user === null
NoItem == [kind |-> "none"]

\* A browser in which the application is not open and nothing is stored.
FrontendClosed ==
    [token |-> NoItem, savedUser |-> NoItem, user |-> NoItem,
     path |-> "closed", error |-> Null, calls |-> {}, rejected |-> FALSE]

----------------------------------------------------------------------------
(* Initial state *)

Init ==
    /\ now = 0
    /\ users = UsersFixture
    /\ JWT_SECRET = DefaultJwtSecret
    /\ reqs = <<>>
    /\ secretFetches = 0
    /\ settingLookups = 0
    /\ fe = FrontendClosed

\* The request r joins reqs; the counters gain the calls it has sent.
Arrive(r) ==
    /\ reqs' = Append(reqs, r)
    /\ secretFetches' = secretFetches + r.secretCalls
    /\ settingLookups' = settingLookups + r.settingCalls
    /\ UNCHANGED <<now, users, JWT_SECRET, fe>>

\* The request i becomes r; the counters gain the calls r has sent since.
Resume(i, r) ==
    /\ reqs' = [reqs EXCEPT ![i] = r]
    /\ secretFetches' = secretFetches + (r.secretCalls - reqs[i].secretCalls)
    /\ settingLookups' = settingLookups + (r.settingCalls - reqs[i].settingCalls)
    /\ UNCHANGED <<now, users, JWT_SECRET, fe>>

----------------------------------------------------------------------------
(* Actions *)

\* Time passes.
Tick ==
    /\ \E d \in TickSteps :
        /\ now + d <= MaxTime
        /\ now' = now + d
    /\ UNCHANGED <<users, JWT_SECRET, reqs, secretFetches, settingLookups, fe>>

\* GET /api/health
Health ==
    /\ Len(reqs) < MaxReq
    /\ Arrive(Respond(NewReq("health", NoHeader), 200,
            [status |-> "OK", timestamp |-> now,
             service |-> "azure-appconfig-demo-backend"]))

\* A login handler that counts the attempts in the record it found.
LoginCounting ==
    /\ Len(reqs) < MaxReq
    /\ \E username \in Usernames, password \in Passwords :
        LET r == [NewReq("login", NoHeader) EXCEPT
                        !.username = username, !.password = password]
            k == FindUser(users, username)
        IN  /\ Truthy(username) /\ Truthy(password) /\ k /= 0
            /\ reqs' = Append(reqs, [r EXCEPT !.pc = "awaitBcrypt", !.userIdx = k])
            /\ users' = [users EXCEPT ![k].name = "Demo User (seen)"]
            /\ UNCHANGED <<now, JWT_SECRET, secretFetches, settingLookups, fe>>

\* POST /api/auth/login, up to await bcrypt.compare
Login ==
    /\ Len(reqs) < MaxReq
    /\ \E username \in Usernames, password \in Passwords :
        LET r == [NewReq("login", NoHeader) EXCEPT
                        !.username = username, !.password = password]
            k == FindUser(users, username)
        IN  IF ~Truthy(username) \/ ~Truthy(password)
            THEN Arrive(Respond(r, 400, [error |-> "Username and password required"]))
            ELSE IF k = 0
            THEN Arrive(Respond(r, 401, [error |-> "Invalid credentials"]))
            ELSE Arrive([r EXCEPT !.pc = "awaitBcrypt", !.userIdx = k])

\* POST /api/auth/login, after await bcrypt.compare
LoginCompare(i) ==
    /\ i \in 1..Len(reqs)
    /\ reqs[i].pc = "awaitBcrypt"
    /\ LET r == reqs[i]
           user == users[r.userIdx]
           isValidPassword == bcryptCompare(r.password, user.password)
       IN  CASE isValidPassword = "throw" ->
                    Resume(i, Respond([r EXCEPT !.caught = "data and hash must be strings"],
                                      500, [error |-> "Internal server error"]))
              [] isValidPassword = "false" ->
                    Resume(i, Respond(r, 401, [error |-> "Invalid credentials"]))
              [] OTHER ->
                    Resume(i, Respond(r, 200,
                        [success |-> TRUE,
                         token |-> jwtSign(user, JWT_SECRET, now),
                         user |-> [id |-> user.id, username |-> user.username,
                                   name |-> user.name]]))

\* GET /api/auth/profile
Profile ==
    /\ Len(reqs) < MaxReq
    /\ \E header \in Headers :
        LET r == NewReq("profile", header)
            auth == authenticateToken(header, now)
        IN  IF auth.status /= 0
            THEN Arrive(Respond(r, auth.status, auth.body))
            ELSE Arrive(Respond(r, 200, [success |-> TRUE, user |-> auth.user]))

\* GET /api/config, up to the await in getAppConfigClient
Config ==
    /\ Len(reqs) < MaxReq
    /\ \E header \in Headers :
        LET r == NewReq("config", header)
            auth == authenticateToken(header, now)
        IN  IF auth.status /= 0
            THEN Arrive(Respond(r, auth.status, auth.body))
            ELSE Arrive(getAppConfigClient(r))

\* GET /api/config/:key, up to the await in getAppConfigClient
ConfigKey ==
    /\ Len(reqs) < MaxReq
    /\ \E header \in Headers, key \in RequestedKeys :
        LET r == [NewReq("configKey", header) EXCEPT !.key = key]
            auth == authenticateToken(header, now)
        IN  IF auth.status /= 0
            THEN Arrive(Respond(r, auth.status, auth.body))
            ELSE Arrive(getAppConfigClient(r))

\* GET /, up to the await in getAppConfigClient
Legacy ==
    /\ Len(reqs) < MaxReq
    /\ \E header \in {NoHeader} :
        Arrive(getAppConfigClient(NewReq("legacy", header)))

\* getSecret answers with the connection string: the client is built and
\* the first lookup is sent.
SecretOk(i) ==
    /\ i \in 1..Len(reqs)
    /\ reqs[i].pc = "awaitSecret"
    /\ Resume(i, getConfigurationSetting([reqs[i] EXCEPT !.client = i]))

\* getSecret fails: getAppConfigClient rethrows, the route's catch answers.
SecretFails(i) ==
    /\ i \in 1..Len(reqs)
    /\ reqs[i].pc = "awaitSecret"
    /\ \E message \in SecretErrors : Resume(i, Catch(reqs[i], message))

\* The handler of r resumes with the setting it awaited.
AfterSetting(r, setting) ==
    CASE r.route = "configKey" ->
            Respond(r, 200, [success |-> TRUE, key |-> setting.key,
                             value |-> setting.value,
                             lastModified |-> setting.lastModified])
      [] r.route /= "configKey" /\ r.step = 1 ->
            getConfigurationSetting([r EXCEPT !.promoText = setting.value])
      [] r.route /= "configKey" /\ r.step = 2 ->
            getConfigurationSetting([r EXCEPT !.promoColor = setting.value])
      [] r.route = "config" /\ r.step = 3 ->
            Respond([r EXCEPT !.newCheckoutEnabled = setting.value], 200,
                    ConfigBody(r.promoText, r.promoColor, setting.value))
      [] OTHER ->
            Respond([r EXCEPT !.newCheckoutEnabled = setting.value], 200,
                    LegacyPage(r.promoText, r.promoColor, setting.value))

\* getConfigurationSetting answers with the entry of the store.
SettingOk(i) ==
    /\ i \in 1..Len(reqs)
    /\ reqs[i].pc = "awaitSetting"
    /\ \E v \in StoredValues(AwaitedKey(reqs[i])) :
            Resume(i, AfterSetting(reqs[i], Entry(AwaitedKey(reqs[i]), v)))

\* getConfigurationSetting fails: the route's catch answers.
SettingFails(i) ==
    /\ i \in 1..Len(reqs)
    /\ reqs[i].pc = "awaitSetting"
    /\ \E message \in SettingErrors(AwaitedKey(reqs[i])) :
            Resume(i, Catch(reqs[i], message))

\* The store an external call went to never answers it.
NeverAnswers(i) ==
    /\ i \in 1..Len(reqs)
    /\ reqs[i].pc \in {"awaitSecret", "awaitSetting"}
    /\ Resume(i, [reqs[i] EXCEPT !.pc = "hung"])

Next ==
    \/ Tick
    \/ Health
    \/ Login
    \/ Profile
    \/ Config
    \/ ConfigKey
    \/ Legacy
    \/ \E i \in 1..Len(reqs) : LoginCompare(i)
    \/ \E i \in 1..Len(reqs) : SecretOk(i)
    \/ \E i \in 1..Len(reqs) : SecretFails(i)
    \/ \E i \in 1..Len(reqs) : SettingOk(i)
    \/ \E i \in 1..Len(reqs) : SettingFails(i)

Spec == Init /\ [][Next]_vars

\* The same server with stores that may leave a call unanswered for ever.
\* The event loop runs every continuation that is ready, and a call that
\* is not lost is answered.
CallEnds(i) ==
    SecretOk(i) \/ SecretFails(i) \/ SettingOk(i) \/ SettingFails(i) \/ NeverAnswers(i)

LiveNext ==
    \/ Next
    \/ \E i \in 1..Len(reqs) : NeverAnswers(i)

LiveSpec ==
    /\ Init
    /\ [][LiveNext]_vars
    /\ \A i \in 1..MaxReq : WF_vars(LoginCompare(i)) /\ WF_vars(CallEnds(i))

----------------------------------------------------------------------------
(* Vocabulary of the claims *)

Done(i) == reqs[i].pc = "done"

ProtectedRoutes == {"profile", "config", "configKey"}
ConfigRoutes == {"config", "configKey"}

\* The tokens a holder of the signing key has signed.
SignedTokens == {MintedToken} \cup IssuedTokens

\* The header carries a session token that is valid at time t.
CarriesValidToken(header, t) ==
    /\ Len(header) >= 2
    /\ header[2] \in SignedTokens
    /\ t < header[2].payload.exp

\* The header carries no token at all.
CarriesNoToken(header) == Len(header) < 2 \/ header[2] = EmptyString

\* The request was let through by the gate.
Authenticated(r) == r.route \in ProtectedRoutes /\ r.status \notin {401, 403}

InvalidCredentials == [error |-> "Invalid credentials"]

\* The login sends the credentials the fixture is documented to hold.
FixturePair(r) ==
    r.username = Str(DemoUsername) /\ r.password = Str(DocumentedPassword)

----------------------------------------------------------------------------
(* C1 *)

\* C1: a request to a protected route that carries no valid session token
\* is answered by the gate in the step that receives it, with 401 when the
\* header holds no token and 403 otherwise, and that step sends no call to
\* either store; a request the gate has rejected never has a call made for it.
C1_GateRejects ==
    /\ [][\A i \in 1..Len(reqs') :
            (i > Len(reqs)
                /\ reqs'[i].route \in ProtectedRoutes
                /\ ~CarriesValidToken(reqs'[i].header, now))
            => /\ reqs'[i].pc = "done"
               /\ reqs'[i].status = IF CarriesNoToken(reqs'[i].header) THEN 401 ELSE 403
               /\ secretFetches' = secretFetches
               /\ settingLookups' = settingLookups]_vars
    /\ [](\A i \in 1..Len(reqs) :
            (reqs[i].route \in ProtectedRoutes /\ reqs[i].status \in {401, 403})
            => /\ Done(i)
               /\ reqs[i].secretCalls = 0
               /\ reqs[i].settingCalls = 0
               /\ reqs[i].client = 0)

\* An expired token was rejected with 403 and a missing one with 401.
C1_Witness ==
    \E i, j \in 1..Len(reqs) :
        /\ reqs[i].route = "config"
        /\ reqs[i].header = Bearer(MintedToken)
        /\ reqs[i].status = 403
        /\ reqs[j].route = "configKey"
        /\ reqs[j].header = NoHeader
        /\ reqs[j].status = 401

----------------------------------------------------------------------------
(* C2 *)

----------------------------------------------------------------------------
(* C3 *)

\* C3: every login whose username and password are both present and are
\* not the credentials of the fixture is answered 401 with the one
\* InvalidCredentials body, whether or not the username exists.
C3_SameInvalidCredentials ==
    \A i \in 1..Len(reqs) :
        (/\ reqs[i].route = "login"
         /\ Done(i)
         /\ Truthy(reqs[i].username)
         /\ Truthy(reqs[i].password)
         /\ ~FixturePair(reqs[i]))
        => reqs[i].status = 401 /\ reqs[i].body = InvalidCredentials

----------------------------------------------------------------------------
(* C4 *)

\* C4: a login with the credentials of the fixture returns the fixture's
\* id, username and name as its user and a token, and every profile
\* response obtained with that token echoes the same id, username and name.
C4_LoginProfileRoundTrip ==
    \A i \in 1..Len(reqs) :
        (reqs[i].route = "login" /\ Done(i) /\ FixturePair(reqs[i]))
        => /\ reqs[i].status = 200
           /\ reqs[i].body.user = DemoClaims
           /\ \A j \in 1..Len(reqs) :
                (/\ reqs[j].route = "profile"
                 /\ reqs[j].header = Bearer(reqs[i].body.token)
                 /\ reqs[j].status = 200)
                => /\ reqs[j].body.user.id = users[1].id
                   /\ reqs[j].body.user.username = users[1].username
                   /\ reqs[j].body.user.name = users[1].name

----------------------------------------------------------------------------
(* C5 *)

\* What the handler of r has fetched from the settings store so far.
Fetched(r) == {r.promoText, r.promoColor, r.newCheckoutEnabled} \ {Null}

\* C5: an authenticated GET /api/config that has been answered got 500 or
\* 200; when a call of it failed the answer is 500 and holds only success,
\* error and details, none of them a value fetched before the failure; the
\* answer is 200 only when no call failed and the three lookups were made,
\* and it then holds the three values fetched.
C5_AllOrNothing ==
    \A i \in 1..Len(reqs) :
        (reqs[i].route = "config" /\ Authenticated(reqs[i]) /\ Done(i))
        => LET r == reqs[i] IN
           /\ r.status \in {200, 500}
           /\ r.caught /= Null
                => /\ r.status = 500
                   /\ DOMAIN r.body = {"success", "error", "details"}
                   /\ r.body.success = FALSE
                   /\ {r.body.error, r.body.details} \cap Fetched(r) = {}
           /\ r.status = 200
                => /\ r.caught = Null
                   /\ r.settingCalls = 3
                   /\ Cardinality(Fetched(r)) = 3
                   /\ r.body.config.promoBanner.text = r.promoText
                   /\ r.body.config.promoBanner.color = r.promoColor
                   /\ r.body.config.features.newCheckout
                        = (r.newCheckoutEnabled = "true")

\* The third lookup failed after two values had been fetched.
C5_Witness ==
    \E i \in 1..Len(reqs) :
        /\ reqs[i].route = "config"
        /\ reqs[i].status = 500
        /\ reqs[i].settingCalls = 3
        /\ reqs[i].promoText /= Null
        /\ reqs[i].promoColor /= Null

----------------------------------------------------------------------------
(* C6 *)

\* C6: in a 200 response of GET /api/config, features.newCheckout is TRUE
\* exactly when the value read for Feature/NewCheckout is the string
\* "true"; "True", "TRUE", "1" and "" give FALSE.
C6_ExactTrue ==
    \A i \in 1..Len(reqs) :
        (reqs[i].route = "config" /\ reqs[i].status = 200)
        => LET v == reqs[i].newCheckoutEnabled
               b == reqs[i].body.config.features.newCheckout
           IN  /\ b \in BOOLEAN
               /\ b <=> v = "true"
               /\ v \in {"True", "TRUE", "1", ""} => ~b

\* One response read "TRUE" and said FALSE, another read "true" and said TRUE.
C6_Witness ==
    \E i, j \in 1..Len(reqs) :
        /\ reqs[i].route = "config" /\ reqs[i].status = 200
        /\ reqs[i].newCheckoutEnabled = "TRUE"
        /\ reqs[i].body.config.features.newCheckout = FALSE
        /\ reqs[j].route = "config" /\ reqs[j].status = 200
        /\ reqs[j].newCheckoutEnabled = "true"
        /\ reqs[j].body.config.features.newCheckout = TRUE

----------------------------------------------------------------------------
(* C7 *)

RECURSIVE SumSettingCalls(_)
SumSettingCalls(n) ==
    IF n = 0 THEN 0 ELSE reqs[n].settingCalls + SumSettingCalls(n - 1)

\* The requests whose handler calls getAppConfigClient.
ClientCallers ==
    {i \in 1..Len(reqs) :
        \/ reqs[i].route \in ConfigRoutes /\ Authenticated(reqs[i])
        \/ reqs[i].route = "legacy"}

\* C7: every authenticated config request has sent exactly one getSecret
\* call of its own, uses no client but the one built from its own secret,
\* and has a client before it looks a setting up; the getSecret calls made
\* are as many as the requests that need a client, and the lookups made are
\* the sum of the lookups of the requests, so that two requests for one key
\* that are both at their lookup account for two lookups.
C7_NoSharing ==
    /\ \A i \in 1..Len(reqs) :
        (reqs[i].route \in ConfigRoutes /\ Authenticated(reqs[i]))
        => /\ reqs[i].secretCalls = 1
           /\ reqs[i].client \in {0, i}
           /\ reqs[i].settingCalls > 0 => reqs[i].client = i
    /\ secretFetches = Cardinality(ClientCallers)
    /\ settingLookups = SumSettingCalls(Len(reqs))
    /\ \A i, j \in 1..Len(reqs) :
        (/\ i < j
         /\ reqs[i].route = "configKey" /\ reqs[j].route = "configKey"
         /\ reqs[i].key = reqs[j].key
         /\ reqs[i].client /= 0 /\ reqs[j].client /= 0)
        => /\ reqs[i].settingCalls = 1
           /\ reqs[j].settingCalls = 1
           /\ settingLookups >= 2

\* Two requests for the same key are both waiting for their lookup.
C7_Witness ==
    \E i, j \in 1..Len(reqs) :
        /\ i < j
        /\ reqs[i].route = "configKey" /\ reqs[j].route = "configKey"
        /\ reqs[i].key = NewCheckoutKey /\ reqs[j].key = NewCheckoutKey
        /\ reqs[i].pc = "awaitSetting" /\ reqs[j].pc = "awaitSetting"
        /\ secretFetches = 2
        /\ settingLookups = 2

----------------------------------------------------------------------------
(* C8 *)

\* C8: in every route that calls the stores, a request whose call failed
\* is answered 500 with the body success, error, details.
C8_FailuresAre500 ==
    \A i \in 1..Len(reqs) :
        (reqs[i].route \in {"config", "configKey", "legacy"} /\ reqs[i].caught /= Null)
        => /\ reqs[i].status = 500
           /\ DOMAIN reqs[i].body = {"success", "error", "details"}

----------------------------------------------------------------------------
(* C9 *)

\* C9: every request to GET /api/config or GET /api/config/:key is
\* eventually answered, also when a store never answers a call.
C9_EventuallyAnswered ==
    \A i \in 1..MaxReq :
        (i <= Len(reqs) /\ reqs[i].route \in ConfigRoutes)
            ~> (i <= Len(reqs) /\ Done(i))

----------------------------------------------------------------------------
(* C10 *)

\* C10: the user fixture and the signing key are what they were at process
\* start, in every reachable state.
C10_ReadOnlyState ==
    /\ users = UsersFixture
    /\ JWT_SECRET = DefaultJwtSecret

\* A login and a configuration request have both been answered.
C10_Witness ==
    \E i, j \in 1..Len(reqs) :
        /\ reqs[i].route = "login" /\ Done(i) /\ reqs[i].userIdx /= 0
        /\ reqs[j].route = "config" /\ reqs[j].status = 200
        /\ users = UsersFixture

----------------------------------------------------------------------------
(* C11 *)

\* The response of r holds a value read from the settings store.
SendsSetting(r) ==
    /\ r.pc = "done"
    /\ DOMAIN r.body \cap {"config", "value", "banner", "color", "checkout"} /= {}

\* C11: a request for which a store was called, or whose response holds a
\* value of the settings store, has passed the token check of the gate.
C11_OnlyAfterVerification ==
    \A i \in 1..Len(reqs) :
        (\/ reqs[i].secretCalls > 0
         \/ reqs[i].settingCalls > 0
         \/ SendsSetting(reqs[i]))
        => Authenticated(reqs[i])

----------------------------------------------------------------------------
(* The frontend against the backend *)

\* What localStorage may hold when the application is opened: nothing, or
\* a token and the user saved with it by an earlier session.
StoredSessions ==
    {[token |-> NoItem, savedUser |-> NoItem],
     [token |-> MintedToken, savedUser |-> DemoClaims],
     [token |-> ForgedToken, savedUser |-> DemoClaims]}

ProtectedPaths == {"/dashboard", "/config"}
FormCredentials ==
    {[username |-> u, password |-> p] :
        u \in Usernames, p \in {Str(DocumentedPassword), Str("wrong-password")}}
NoCredentials == [username |-> Str(""), password |-> Str("")]

\* The request interceptor: Authorization is set when a token is stored.
RequestHeader(token) == IF token = NoItem THEN NoHeader ELSE Bearer(token)

\* An axios call as it is sent.
Call(api, f, credentials) ==
    [api |-> api, header |-> RequestHeader(f.token), credentials |-> credentials]

\* The responses the backend can give to call c at time t: the gate's
\* answer, else the handler's.
BackendResponses(c, t) ==
    LET auth == authenticateToken(c.header, t)
        k == FindUser(users, c.credentials.username)
    IN  CASE c.api = "login" ->
                IF ~Truthy(c.credentials.username) \/ ~Truthy(c.credentials.password)
                THEN {[status |-> 400]}
                ELSE IF k = 0 THEN {[status |-> 401]}
                ELSE IF bcryptCompare(c.credentials.password, users[k].password) = "throw"
                THEN {[status |-> 500]}
                ELSE IF bcryptCompare(c.credentials.password, users[k].password) = "false"
                THEN {[status |-> 401]}
                ELSE {[status |-> 200, token |-> jwtSign(users[k], JWT_SECRET, t),
                       user |-> [id |-> users[k].id, username |-> users[k].username,
                                 name |-> users[k].name]]}
          [] c.api /= "login" /\ auth.status /= 0 -> {[status |-> auth.status]}
          [] c.api = "profile" /\ auth.status = 0 ->
                {[status |-> 200, user |-> auth.user]}
          [] OTHER -> {[status |-> 200], [status |-> 500]}

\* AuthProvider's effect and the first render after the page at path p has
\* loaded: React state starts empty and the calls of the old page are gone.
LoadPage(f, p) ==
    IF f.token /= NoItem /\ f.savedUser /= NoItem
    THEN LET g == [f EXCEPT !.user = f.savedUser, !.error = Null,
                            !.path = IF p \in ProtectedPaths THEN p ELSE "/dashboard"]
         IN  [g EXCEPT !.calls = {Call("profile", g, NoCredentials),
                                  Call("config", g, NoCredentials)}]
    ELSE [f EXCEPT !.user = NoItem, !.error = Null, !.path = "/login", !.calls = {}]

\* logout(), and ProtectedRoute navigating to /login
logout(f) ==
    [f EXCEPT !.token = NoItem, !.savedUser = NoItem, !.user = NoItem,
              !.path = "/login"]

\* The response interceptor (lines 51-61) on an error response.
OnRejected(f, status) ==
    IF status = 401
    THEN LoadPage([f EXCEPT !.token = NoItem, !.savedUser = NoItem], "/login")
    ELSE f

\* The caller's then / catch for the response res of call c.
AfterCall(f, c, res) ==
    CASE c.api = "profile" /\ res.status = 200 /\ f.path /= "/login" ->
            [f EXCEPT !.user = res.user]
      [] c.api = "profile" /\ res.status = 200 /\ f.path = "/login" ->
            \* Login renders Navigate to /dashboard, which mounts Dashboard
            [f EXCEPT !.user = res.user, !.path = "/dashboard",
                      !.calls = @ \cup {Call("config", f, NoCredentials)}]
      [] c.api = "profile" /\ res.status /= 200 -> logout(f)
      [] c.api = "login" /\ res.status = 200 ->
            LET g == [f EXCEPT !.token = res.token, !.savedUser = res.user,
                               !.user = res.user, !.path = "/dashboard"]
            IN  [g EXCEPT !.calls = @ \cup {Call("config", g, NoCredentials)}]
      [] c.api = "login" /\ res.status /= 200 ->
            [f EXCEPT !.error = "Login failed"]
      [] c.api = "config" /\ res.status /= 200 /\ f.path = "/dashboard" ->
            [f EXCEPT !.error = "Failed to load configuration"]
      [] OTHER -> f

FrontInit ==
    /\ now = 0
    /\ users = UsersFixture
    /\ JWT_SECRET = DefaultJwtSecret
    /\ reqs = <<>>
    /\ secretFetches = 0
    /\ settingLookups = 0
    /\ \E s \in StoredSessions :
        fe = [FrontendClosed EXCEPT !.token = s.token, !.savedUser = s.savedUser]

Backend == <<users, JWT_SECRET, reqs, secretFetches, settingLookups>>

\* The user opens or reloads the application at path p.
OpenPage ==
    /\ \E p \in ProtectedPaths \cup {"/login"} : fe' = LoadPage(fe, p)
    /\ UNCHANGED <<now, Backend>>

\* The user follows a Link of the navigation bar: the page mounts and loads
\* the configuration.
FollowLink ==
    /\ fe.user /= NoItem
    /\ fe.path \in ProtectedPaths
    /\ \E p \in ProtectedPaths \ {fe.path} :
        fe' = [fe EXCEPT !.path = p, !.error = Null,
                         !.calls = @ \cup {Call("config", fe, NoCredentials)}]
    /\ UNCHANGED <<now, Backend>>

\* The user presses a refresh button of the page shown.
Refresh ==
    /\ fe.user /= NoItem
    /\ fe.path \in ProtectedPaths
    /\ fe' = [fe EXCEPT !.calls = @ \cup
                {Call(IF fe.path = "/dashboard" THEN "config" ELSE "configKey",
                      fe, NoCredentials)}]
    /\ UNCHANGED <<now, Backend>>

\* The user presses Logout.
PressLogout ==
    /\ fe.user /= NoItem
    /\ fe.path \in ProtectedPaths
    /\ fe' = logout(fe)
    /\ UNCHANGED <<now, Backend>>

\* The user submits the login form.
SubmitLogin ==
    /\ fe.user = NoItem
    /\ fe.path = "/login"
    /\ \E cr \in FormCredentials :
        fe' = [fe EXCEPT !.error = Null, !.calls = @ \cup {Call("login", fe, cr)}]
    /\ UNCHANGED <<now, Backend>>

\* The response to call c arrives: the interceptor runs, then the caller's
\* then or catch unless the interceptor has sent the browser to /login.
Response(c) ==
    /\ c \in fe.calls
    /\ \E res \in BackendResponses(c, now) :
        LET f == [fe EXCEPT !.calls = @ \ {c},
                            !.rejected = @ \/ (c.api /= "login" /\ res.status \in {401, 403})]
            g == OnRejected(f, res.status)
        IN  fe' = IF g /= f THEN g ELSE AfterCall(f, c, res)
    /\ UNCHANGED <<now, Backend>>

\* Every call the frontend can have in flight.
AllCalls ==
    {[api |-> a, header |-> h, credentials |-> NoCredentials] :
        a \in {"profile", "config", "configKey"},
        h \in {RequestHeader(s.token) : s \in StoredSessions}}
    \cup {[api |-> "login", header |-> h, credentials |-> cr] :
        h \in {RequestHeader(s.token) : s \in StoredSessions}, cr \in FormCredentials}

FrontNext ==
    \/ Tick
    \/ OpenPage
    \/ FollowLink
    \/ Refresh
    \/ PressLogout
    \/ SubmitLogin
    \/ \E c \in AllCalls : Response(c)

\* The browser and the backend: every call in flight is answered and its
\* handlers run; the user is not bound to do anything.
FrontSpec ==
    /\ FrontInit
    /\ [][FrontNext]_vars
    /\ \A c \in AllCalls : WF_vars(Response(c))

----------------------------------------------------------------------------
(* C12 *)

\* Nothing of the session is left in the browser.
SessionCleared ==
    fe.token = NoItem /\ fe.savedUser = NoItem /\ fe.user = NoItem

\* C12: once the backend has answered a call of the frontend with 401 or
\* 403, the frontend eventually holds neither 'token' nor 'user' in
\* localStorage and has no logged-in user.
C12_RejectedSessionCleared == fe.rejected ~> SessionCleared

====
